---- MODULE Spec2Model ----
(***************************************************************************)
(* Model of src/backends/webgl/webgl_context_manager.ts: the registry of   *)
(* WebGLRenderingContext handles keyed by WebGL version, the injectable    *)
(* factory / cleanup callbacks, bootstrap and the error checking wrapper.  *)
(*                                                                         *)
(* The source file holds two iterations of the manager: the first one      *)
(* (lines 21-116) and the error-checked one (lines 138-267).  The variable *)
(* variant says which of the two is running; it never changes.             *)
(***************************************************************************)
EXTENDS Integers, Sequences, FiniteSets, TLC

\* ---------------------------------------------------------------- bounds
MaxHandles == 3      \* handles alive or touched in one call: ids 1..MaxHandles
MaxStatus == 120     \* getWebGLErrorMessage is applied to 0..MaxStatus, to
                     \* the codes around the named ones, and to a few others

\* ------------------------------------------------------------- constants
Null == "null"       \* the null callback
NoHandle == 0        \* "version in contexts" is false

NO_ERROR == 0
INVALID_ENUM == 1280
INVALID_VALUE == 1281
INVALID_OPERATION == 1282
OUT_OF_MEMORY == 1285
INVALID_FRAMEBUFFER_OPERATION == 1286
CONTEXT_LOST_WEBGL == 37442

Versions == {1, 2}   \* WebGL 1 and WebGL 2
Handles == 1..MaxHandles

\* the callbacks an embedder can inject, and the two browser defaults
\* (in the browser a swap is between the default and the injected factory)
InjectedFactories == {"F1"}
InjectedCleanups == {"C1"}
createDOMCanvasWebGLRenderingContext == "createDOMCanvasWebGLRenderingContext"
cleanupDOMCanvasWebGLRenderingContext == "cleanupDOMCanvasWebGLRenderingContext"


VARIABLES
  variant,          \* 1: lines 21-116, 2: lines 138-267
  ENV,              \* the flags IS_BROWSER, DEBUG, WEBGL_VERSION
  contexts,         \* version -> handle, NoHandle when the key is absent
  contextFactory,   \* the factory slot
  contextCleanup,   \* the cleanup slot
  gl,               \* the handles of the registry: the version and the
                    \* factory they were built with, whether cleanup was
                    \* invoked on them, how many state-setting calls
                    \* (disable, enable, cullFace) they have received
  call              \* the last operation: its arguments, events and outcome

vars == <<variant, ENV, contexts, contextFactory, contextCleanup, gl, call>>

\* the codes gl.getError() of a handle answers with
ErrorCodes == {NO_ERROR, CONTEXT_LOST_WEBGL}

\* an id that names no handle of the registry
NoContext == [version |-> 0, builtBy |-> Null, cleaned |-> FALSE, calls |-> 0]

\* one call on a collaborator (factory, cleanup, a method of a handle)
Ev(e, h, s, n) == [e |-> e, h |-> h, s |-> s, n |-> n]

\* the module state an operation starts from, with an empty event list
Enter ==
  [contexts |-> contexts, contextFactory |-> contextFactory,
   contextCleanup |-> contextCleanup, gl |-> gl, trace |-> <<>>,
   status |-> "ok", code |-> NO_ERROR, ret |-> NoHandle,
   returnValue |-> "undefined"]

\* statement sequencing: of the outcomes of a statement, those that threw
\* end the call, the next statement runs on the others
Thrown(S) == {s \in S : s.status # "ok"}
Ok(S) == {s \in S : s.status = "ok"}

\* the handles the registry holds and those this call has touched
InUse(st) ==
  {st.contexts[v] : v \in Versions} \cup {st.trace[i].h : i \in 1..Len(st.trace)}

\* The handle the next factory invocation returns: a new object, named by
\* the least id that names no handle in use (the id of a handle that left
\* the registry in an earlier call is free again).
NewHandle(st) ==
  IF Handles \subseteq InUse(st) THEN MaxHandles + 1
  ELSE CHOOSE h \in Handles \ InUse(st) : \A k \in Handles \ InUse(st) : h <= k

\* the driver answers gl.getError() with any code
checkWebGLError(st, h) ==
  { LET st1 == [st EXCEPT !.trace = Append(@, Ev("getError", h, "", error))]
    IN IF error # NO_ERROR
         THEN [st1 EXCEPT !.status = "GraphicsError", !.code = error]
         ELSE st1
    : error \in ErrorCodes }

\* ------------------------------------------------ getWebGLErrorMessage
\* A string is a sequence of pieces: a literal of the source is one piece,
\* a formatted number is one piece per character.
DigitChars == <<"0", "1", "2", "3", "4", "5", "6", "7", "8", "9">>

RECURSIVE Decimal(_)
Decimal(n) ==
  IF n < 10 THEN <<DigitChars[n + 1]>>
  ELSE Append(Decimal(n \div 10), DigitChars[(n % 10) + 1])

\* `${status}` for an integer status
NumberToString(status) ==
  IF status < 0 THEN <<"-">> \o Decimal(0 - status) ELSE Decimal(status)

\* (mutant) the case of gl.CONTEXT_LOST_WEBGL is missing from the switch
getWebGLErrorMessage_NoContextLost(status) ==
  CASE status = NO_ERROR -> <<"NO_ERROR">>
    [] status = INVALID_ENUM -> <<"INVALID_ENUM">>
    [] status = INVALID_VALUE -> <<"INVALID_VALUE">>
    [] status = INVALID_OPERATION -> <<"INVALID_OPERATION">>
    [] status = INVALID_FRAMEBUFFER_OPERATION ->
         <<"INVALID_FRAMEBUFFER_OPERATION">>
    [] status = OUT_OF_MEMORY -> <<"OUT_OF_MEMORY">>
    [] OTHER -> <<"Unknown error code ">> \o NumberToString(status)

getWebGLErrorMessage(status) ==
  CASE status = NO_ERROR -> <<"NO_ERROR">>
    [] status = INVALID_ENUM -> <<"INVALID_ENUM">>
    [] status = INVALID_VALUE -> <<"INVALID_VALUE">>
    [] status = INVALID_OPERATION -> <<"INVALID_OPERATION">>
    [] status = INVALID_FRAMEBUFFER_OPERATION ->
         <<"INVALID_FRAMEBUFFER_OPERATION">>
    [] status = OUT_OF_MEMORY -> <<"OUT_OF_MEMORY">>
    [] status = CONTEXT_LOST_WEBGL -> <<"CONTEXT_LOST_WEBGL">>
    [] OTHER -> <<"Unknown error code ">> \o NumberToString(status)

\* gl.disable(cap), gl.enable(cap), gl.cullFace(mode)
glCall(st, h, fn, cap) ==
  [st EXCEPT !.trace = Append(@, Ev(fn, h, cap, 0)), !.gl[h].calls = @ + 1]

\* "func()": the closure calls one method of the handle, and returns what
\* the method returns or throws what it throws
invoke(st, h, func) ==
  LET called == glCall(st, h, func.fn, func.cap)
  IN IF func.throws THEN [called EXCEPT !.status = "OperationError"]
     ELSE [called EXCEPT !.returnValue = func.returns]

\* (mutant) the error state is queried whatever debugMode says
callAndCheck_AlwaysCheck(st, h, debugMode, func) ==
  LET ran == invoke(st, h, func)
  IN IF ran.status # "ok" THEN {ran} ELSE checkWebGLError(ran, h)

callAndCheck(st, h, debugMode, func) ==
  LET ran == invoke(st, h, func)
  IN IF ran.status # "ok" THEN {ran}
     ELSE IF debugMode THEN checkWebGLError(ran, h) ELSE {ran}

\* "() => gl.disable(gl.DEPTH_TEST)"
disableDepthTest ==
  [fn |-> "disable", cap |-> "DEPTH_TEST", returns |-> "undefined",
   throws |-> FALSE]

\* the eight calls after gl.disable(gl.DEPTH_TEST)
bootstrapRest(st, h) ==
  LET s2 == glCall(st, h, "disable", "STENCIL_TEST")
      s3 == glCall(s2, h, "disable", "BLEND")
      s4 == glCall(s3, h, "disable", "DITHER")
      s5 == glCall(s4, h, "disable", "POLYGON_OFFSET_FILL")
      s6 == glCall(s5, h, "disable", "SAMPLE_COVERAGE")
      s7 == glCall(s6, h, "enable", "SCISSOR_TEST")
      s8 == glCall(s7, h, "enable", "CULL_FACE")
  IN glCall(s8, h, "cullFace", "BACK")

bootstrapWebGLContext(st, h) ==
  IF variant = 2
    THEN LET first == callAndCheck(st, h, ENV.DEBUG, disableDepthTest)
         IN Thrown(first) \cup {bootstrapRest(s, h) : s \in Ok(first)}
    ELSE {bootstrapRest(glCall(st, h, "disable", "DEPTH_TEST"), h)}

\* (mutant) the default cleanup is resolved before the map is looked at
disposeWebGLContext_EagerDefault(st, version) ==
  LET cl == IF st.contextCleanup = Null /\ ENV.IS_BROWSER
              THEN cleanupDOMCanvasWebGLRenderingContext
              ELSE st.contextCleanup
      st1 == [st EXCEPT !.contextCleanup = cl]
      h == st.contexts[version]
  IN IF h = NoHandle THEN {st1}
     ELSE IF cl = Null
       THEN {[st1 EXCEPT !.contexts[version] = NoHandle,
                         !.trace = Append(@, Ev("delete", h, "", version))]}
       ELSE {[st1 EXCEPT !.gl[h].cleaned = TRUE,
                         !.contexts[version] = NoHandle,
                         !.trace = @ \o <<Ev("cleanup", h, cl, 0),
                                          Ev("delete", h, "", version)>>]}

\* (mutant) after the cleanup the whole map is emptied, not one key
disposeWebGLContext_ClearsAll(st, version) ==
  IF st.contexts[version] = NoHandle THEN {st}
  ELSE
    LET h == st.contexts[version]
        cl == IF st.contextCleanup = Null /\ ENV.IS_BROWSER
                THEN cleanupDOMCanvasWebGLRenderingContext
                ELSE st.contextCleanup
        st1 == [st EXCEPT !.contextCleanup = cl]
        delete(s) ==
          [s EXCEPT !.contexts = [v \in Versions |-> NoHandle],
                    !.trace = Append(@, Ev("delete", h, "", version))]
    IN IF cl = Null
         THEN {delete(st1)}
         ELSE
           LET ran(threw) ==
                 [st1 EXCEPT !.gl[h].cleaned = TRUE,
                             !.trace = Append(@, Ev("cleanup", h, cl,
                                                    IF threw THEN 1 ELSE 0))]
           IN { delete(ran(FALSE)),
                [ran(TRUE) EXCEPT !.status = "CleanupError"] }

\* the outcomes of disposeWebGLContext(version): the cleanup callback
\* returns or throws
disposeWebGLContext(st, version) ==
  IF st.contexts[version] = NoHandle THEN {st}
  ELSE
    LET h == st.contexts[version]
        cl == IF st.contextCleanup = Null /\ ENV.IS_BROWSER
                THEN cleanupDOMCanvasWebGLRenderingContext
                ELSE st.contextCleanup
        st1 == [st EXCEPT !.contextCleanup = cl]
        delete(s) ==
          [s EXCEPT !.contexts[version] = NoHandle,
                    !.trace = Append(@, Ev("delete", h, "", version))]
    IN IF cl = Null
         THEN {delete(st1)}
         ELSE
           LET ran(threw) ==
                 [st1 EXCEPT !.gl[h].cleaned = TRUE,
                             !.trace = Append(@, Ev("cleanup", h, cl,
                                                    IF threw THEN 1 ELSE 0))]
           IN { delete(ran(FALSE)),
                [ran(TRUE) EXCEPT !.status = "CleanupError"] }

\* "if (!(version in contexts))": the factory builds a handle, which is
\* entered into the map, bootstrapped and (second variant) error-checked
construct(st, version) ==
  LET h == NewHandle(st)
      s0 == [st EXCEPT
               !.gl[h] = [version |-> version,
                          builtBy |-> st.contextFactory,
                          cleaned |-> FALSE, calls |-> 0],
               !.contexts[version] = h,
               !.trace = Append(@, Ev("factory", h, st.contextFactory,
                                      version))]
  IN IF h > MaxHandles THEN {}
     ELSE IF variant = 2
       THEN LET booted == bootstrapWebGLContext(s0, h)
            IN Thrown(booted)
                 \cup UNION {checkWebGLError(s, h) : s \in Ok(booted)}
       ELSE bootstrapWebGLContext(s0, h)

RECURSIVE getContextByVersion(_, _)

\* "const gl = contexts[version]; if (gl.isContextLost()) ..." to the
\* return; the driver answers gl.isContextLost() with either value
resolve(st, version) ==
  LET h == st.contexts[version]
      asked(lost) ==
        [st EXCEPT !.trace = Append(@, Ev("isContextLost", h, "",
                                          IF lost THEN 1 ELSE 0))]
      checked(lost) ==
        IF variant = 2 THEN checkWebGLError(asked(lost), h) ELSE {asked(lost)}
      disposed ==
        UNION {disposeWebGLContext(s, version) : s \in Ok(checked(TRUE))}
      isLost ==
        Thrown(checked(TRUE)) \cup Thrown(disposed)
          \cup UNION {getContextByVersion(s, version) : s \in Ok(disposed)}
      notLost ==
        Thrown(checked(FALSE))
          \cup {[s EXCEPT !.ret = s.contexts[version]] : s \in Ok(checked(FALSE))}
  IN isLost \cup notLost

\* (mutant) the map is not consulted: every call builds a handle
getContextByVersion_NoCache(st, version) ==
  IF st.contextFactory = Null /\ ~ENV.IS_BROWSER
    THEN {[st EXCEPT !.status = "ConfigurationError"]}
    ELSE
      LET st1 == [st EXCEPT !.contextFactory =
                    IF @ = Null THEN createDOMCanvasWebGLRenderingContext
                    ELSE @]
          built == construct(st1, version)
      IN Thrown(built) \cup UNION {resolve(s, version) : s \in Ok(built)}

\* (mutant) the browser default is installed whatever IS_BROWSER says
getContextByVersion_AlwaysDefault(st, version) ==
  LET st1 == [st EXCEPT !.contextFactory =
                IF @ = Null THEN createDOMCanvasWebGLRenderingContext
                ELSE @]
      present == IF st1.contexts[version] = NoHandle
                   THEN construct(st1, version)
                   ELSE {st1}
  IN Thrown(present) \cup UNION {resolve(s, version) : s \in Ok(present)}

\* (mutant) in the browser the default factory replaces an injected one
getContextByVersion_DefaultWins(st, version) ==
  IF st.contextFactory = Null /\ ~ENV.IS_BROWSER
    THEN {[st EXCEPT !.status = "ConfigurationError"]}
    ELSE
      LET st1 == [st EXCEPT !.contextFactory =
                    IF ENV.IS_BROWSER
                      THEN createDOMCanvasWebGLRenderingContext
                      ELSE @]
          present == IF st1.contexts[version] = NoHandle
                       THEN construct(st1, version)
                       ELSE {st1}
      IN Thrown(present)
           \cup UNION {resolve(s, version) : s \in Ok(present)}

getContextByVersion(st, version) ==
  IF st.contextFactory = Null /\ ~ENV.IS_BROWSER
    THEN {[st EXCEPT !.status = "ConfigurationError"]}
    ELSE
      LET st1 == [st EXCEPT !.contextFactory =
                    IF @ = Null THEN createDOMCanvasWebGLRenderingContext
                    ELSE @]
          present == IF st1.contexts[version] = NoHandle
                       THEN construct(st1, version)
                       ELSE {st1}
      IN Thrown(present)
           \cup UNION {resolve(s, version) : s \in Ok(present)}

\* gl describes the handles the registry holds: a handle that left the
\* registry is never read again by the module
Released(g, ctx) ==
  [h \in Handles |-> IF \A v \in Versions : ctx[v] # h THEN NoContext ELSE g[h]]

\* the module state and the record of the call, after an operation
Leave(op, version, arg, st) ==
  /\ contexts' = st.contexts
  /\ contextFactory' = st.contextFactory
  /\ contextCleanup' = st.contextCleanup
  /\ gl' = Released(st.gl, st.contexts)
  /\ call' = [op |-> op, version |-> version, arg |-> arg,
              status |-> st.status, code |-> st.code, ret |-> st.ret,
              trace |-> st.trace]
  /\ UNCHANGED <<variant, ENV>>

\* ---------------------------------------------------------------- actions
Init ==
  /\ variant \in {1, 2}
  \* the two versions are treated alike: WEBGL_VERSION is the second one;
  \* the first variant never reads DEBUG
  /\ ENV \in [IS_BROWSER : BOOLEAN, DEBUG : BOOLEAN, WEBGL_VERSION : {2}]
  /\ variant = 1 => ~ENV.DEBUG
  /\ contexts = [v \in Versions |-> NoHandle]
  /\ contextFactory = Null
  /\ contextCleanup = Null
  /\ gl = [h \in Handles |-> NoContext]
  /\ call = [op |-> "init", version |-> 0, arg |-> Null, status |-> "ok",
             code |-> NO_ERROR, ret |-> NoHandle, trace |-> <<>>]

\* (mutant) the swap disposes the cached handles: cleanup runs on each
installFactory_EagerDispose(st, factory) ==
  LET cached == {v \in Versions : st.contexts[v] # NoHandle}
      hs == {st.contexts[v] : v \in cached}
      evs == IF hs = {} \/ st.contextCleanup = Null THEN <<>>
             ELSE <<Ev("cleanup", CHOOSE h \in hs : TRUE, st.contextCleanup, 0)>>
  IN [st EXCEPT !.contextFactory = factory,
                !.contexts = [v \in Versions |-> NoHandle],
                !.trace = @ \o evs]

\* the first variant also empties the map ("contexts = {}")
installFactory(st, factory) ==
  [st EXCEPT !.contextFactory = factory,
             !.contexts = IF variant = 1 THEN [v \in Versions |-> NoHandle]
                          ELSE @]

setContextFactory(factory) ==
  \E st \in {installFactory(Enter, factory)} :
    Leave("setContextFactory", 0, factory, st)

\* (mutant) the cleanup swap also empties the map
installCleanup_DropsCache(st, cleanup) ==
  [st EXCEPT !.contextCleanup = cleanup,
             !.contexts = [v \in Versions |-> NoHandle]]

installCleanup(st, cleanup) == [st EXCEPT !.contextCleanup = cleanup]

setContextCleanup(cleanup) ==
  \E st \in {installCleanup(Enter, cleanup)} :
    Leave("setContextCleanup", 0, cleanup, st)

GetContextByVersion(version) ==
  \E st \in getContextByVersion(Enter, version) :
    Leave("getContextByVersion", version, Null, st)

getActiveContext == GetContextByVersion(ENV.WEBGL_VERSION)

disposeActiveContext ==
  \E st \in disposeWebGLContext(Enter, ENV.WEBGL_VERSION) :
    Leave("disposeActiveContext", ENV.WEBGL_VERSION, Null, st)

\* getActiveContext is getContextByVersion(WEBGL_VERSION): the direct calls
\* of getContextByVersion taken are those for the other version
Next ==
  \/ \E f \in InjectedFactories \cup {Null} : setContextFactory(f)
  \/ \E c \in InjectedCleanups \cup {Null} : setContextCleanup(c)
  \/ \E v \in Versions \ {ENV.WEBGL_VERSION} : GetContextByVersion(v)
  \/ getActiveContext
  \/ disposeActiveContext

Spec == Init /\ [][Next]_vars

\* getWebGLErrorMessage reads nothing of the module state: its calls are
\* explored on their own, from the initial states of the module
StatusCodes ==
  (0 .. MaxStatus) \cup (1275 .. 1290) \cup {CONTEXT_LOST_WEBGL}
    \cup {-1, 999, 1000, 9999, 37441, 37443}

GetWebGLErrorMessage(status) ==
  /\ call' = [op |-> "getWebGLErrorMessage", arg |-> status,
              ret |-> getWebGLErrorMessage(status)]
  /\ UNCHANGED <<variant, ENV, contexts, contextFactory, contextCleanup, gl>>

NextMessage == \E status \in StatusCodes : GetWebGLErrorMessage(status)

SpecMessage == Init /\ [][NextMessage]_vars

\* callAndCheck is not exported; its calls with every kind of closure are
\* explored on their own, on a handle of the caller
Operations ==
  [fn : {"disable", "enable", "getParameter"},
   cap : {"DEPTH_TEST", "CULL_FACE"},
   returns : {"undefined", "true", "false"},
   throws : BOOLEAN]

CallAndCheck(debugMode, func) ==
  \E st \in callAndCheck(Enter, 1, debugMode, func) :
    /\ call' = [op |-> "callAndCheck", debugMode |-> debugMode,
                func |-> func, status |-> st.status, code |-> st.code,
                ret |-> IF st.status = "ok" THEN st.returnValue ELSE "none",
                trace |-> st.trace]
    /\ UNCHANGED <<variant, ENV, contexts, contextFactory, contextCleanup, gl>>

NextCallAndCheck ==
  \E debugMode \in BOOLEAN, func \in Operations :
    CallAndCheck(debugMode, func)

SpecCallAndCheck == Init /\ [][NextCallAndCheck]_vars

TypeOK ==
  /\ variant \in {1, 2}
  /\ contexts \in [Versions -> Handles \cup {NoHandle}]
  /\ contextFactory \in InjectedFactories
                         \cup {Null, createDOMCanvasWebGLRenderingContext}
  /\ contextCleanup \in InjectedCleanups
                         \cup {Null, cleanupDOMCanvasWebGLRenderingContext}
  /\ \A h \in Handles : gl[h].cleaned \in BOOLEAN /\ gl[h].calls \in 0..9

\* ------------------------------------------------- reading a call's events
\* the positions of the events of one kind in a call's event list
Idx(trace, kind) == {i \in 1..Len(trace) : trace[i].e = kind}

\* the call began by asking the cached handle h of its version whether it
\* is lost, and the handle answered n (1: lost, 0: not lost)
AskedCached(c, n) ==
  /\ c.op = "getContextByVersion"
  /\ Len(c.trace) > 0
  /\ c.trace[1].e = "isContextLost"
  /\ c.trace[1].n = n

\* a cleanup callback threw during the call
CleanupThrew(c) == \E i \in Idx(c.trace, "cleanup") : c.trace[i].n = 1

\* during the call the handle h answered isContextLost() with true
LostIn(trace, h) ==
  \E i \in Idx(trace, "isContextLost") : trace[i].h = h /\ trace[i].n = 1

Returned(c) == c.op = "getContextByVersion" /\ c.status = "ok"

\* ------------------------------------------------------------------ C1
\* C1: a getContextByVersion(v) that finds an entry for v whose handle does
\* not answer "lost" never invokes the factory, leaves the entry as it was
\* and, when it returns, returns that very handle; a call that returns
\* leaves the returned handle as the entry of its version; the factory is
\* always invoked with the requested version, and the entries of the two
\* versions are different handles, each built for its own version.
C1_IdempotentCaching ==
  [][ call'.op = "getContextByVersion" =>
        /\ (/\ contexts[call'.version] # NoHandle
            /\ ~LostIn(call'.trace, contexts[call'.version])) =>
             /\ Idx(call'.trace, "factory") = {}
             /\ contexts'[call'.version] = contexts[call'.version]
             /\ call'.status = "ok" => call'.ret = contexts[call'.version]
        /\ call'.status = "ok" =>
             /\ call'.ret # NoHandle
             /\ contexts'[call'.version] = call'.ret
        /\ \A i \in Idx(call'.trace, "factory") :
             call'.trace[i].n = call'.version
        /\ \A v \in Versions : contexts'[v] # NoHandle =>
             /\ gl'[contexts'[v]].version = v
             /\ \A w \in Versions \ {v} : contexts'[w] # contexts'[v]
    ]_vars

\* both versions are cached and the call was answered from the cache
C1_Witness ==
  /\ Returned(call)
  /\ AskedCached(call, 0)
  /\ Idx(call.trace, "factory") = {}
  /\ \A v \in Versions : contexts[v] # NoHandle

\* ------------------------------------------------------------------ C2
\* C2: a getContextByVersion(v) whose cached handle answers "lost" returns
\* without an error, having invoked cleanup exactly once, on the lost
\* handle, and after it the factory exactly once; it returns the handle the
\* factory built, which is the entry of v, and the lost handle is in the
\* registry no more.  (Stated for the calls in which the cleanup callback
\* does not throw and the handle the factory builds is not lost itself:
\* those cases are C5 and C6.)
C2_LossRecovery ==
  (/\ AskedCached(call, 1)
   /\ ~CleanupThrew(call)
   /\ \A i \in Idx(call.trace, "isContextLost") \ {1} :
        call.trace[i].n = 0) =>
    LET lostHandle == call.trace[1].h
        cl == Idx(call.trace, "cleanup")
        fa == Idx(call.trace, "factory")
    IN /\ call.status = "ok"
       /\ Cardinality(cl) = 1
       /\ \A i \in cl : call.trace[i].h = lostHandle
       /\ Cardinality(fa) = 1
       /\ \A i \in cl, j \in fa : i < j
       /\ \A j \in fa : call.ret = call.trace[j].h
       /\ call.ret # lostHandle
       /\ contexts[call.version] = call.ret
       /\ \A v \in Versions : contexts[v] # lostHandle

\* ------------------------------------------------------------------ C3
\* C3: a handle getContextByVersion returns was built by the factory that
\* is in the factory slot: after a swap no handle of an earlier factory is
\* handed out again.
C3_SwapInvalidates ==
  Returned(call) => gl[call.ret].builtBy = contextFactory

\* ------------------------------------------------------------------ C4
\* C4: getContextByVersion with an empty factory slot outside the browser
\* fails with the configuration error, invokes neither callback and leaves
\* the map, the handles and both slots as they were.
C4_ConfigurationError ==
  [][ (/\ call'.op = "getContextByVersion"
       /\ contextFactory = Null
       /\ ~ENV.IS_BROWSER) =>
        /\ call'.status = "ConfigurationError"
        /\ call'.trace = <<>>
        /\ call'.ret = NoHandle
        /\ UNCHANGED <<contexts, contextFactory, contextCleanup, gl>>
    ]_vars

\* the call failed while the map held an entry and a cleanup was installed
C4_Witness ==
  /\ call.op = "getContextByVersion"
  /\ call.status = "ConfigurationError"
  /\ \E v \in Versions : contexts[v] # NoHandle
  /\ contextCleanup # Null

\* ------------------------------------------------------------------ C5
\* C5: after an attempt to dispose the entry of a version (by
\* disposeActiveContext, or by the loss recovery of getContextByVersion)
\* the handle is in the registry no more, also when cleanup threw.
C5_DisposalRemoves ==
  /\ call.op = "disposeActiveContext" => contexts[call.version] = NoHandle
  /\ \A i \in Idx(call.trace, "cleanup") :
       \A v \in Versions : contexts[v] # call.trace[i].h

\* ------------------------------------------------------------------ C6
\* C6: one getContextByVersion disposes at most one handle, and after a
\* disposal its next step is the construction of the replacement.  (Stated
\* for the calls that return.)
DisposedIn(trace) ==
  {trace[i].h : i \in Idx(trace, "cleanup") \cup Idx(trace, "delete")}

C6_BoundedRetry ==
  Returned(call) =>
    /\ Cardinality(DisposedIn(call.trace)) <= 1
    /\ \A i \in Idx(call.trace, "delete") :
         i < Len(call.trace) => call.trace[i + 1].e = "factory"

\* ------------------------------------------------------------------ C7
\* C7: disposeActiveContext when the map has no entry for WEBGL_VERSION
\* raises nothing, invokes neither callback and leaves the map, the handles
\* and both slots as they were.
C7_DisposeAbsentNoOp ==
  [][ (/\ call'.op = "disposeActiveContext"
       /\ contexts[ENV.WEBGL_VERSION] = NoHandle) =>
        /\ call'.status = "ok"
        /\ call'.trace = <<>>
        /\ UNCHANGED <<contexts, contextFactory, contextCleanup, gl>>
    ]_vars

\* the no-op happened in the browser with an empty cleanup slot (the
\* default cleanup was not resolved) while the other version was cached
C7_Witness ==
  /\ call.op = "disposeActiveContext"
  /\ call.trace = <<>>
  /\ contexts[ENV.WEBGL_VERSION] = NoHandle
  /\ \E v \in Versions : contexts[v] # NoHandle
  /\ ENV.IS_BROWSER
  /\ contextCleanup = Null

\* ------------------------------------------------------------------ C8
\* C8: between operations no entry of the registry holds a handle whose
\* last answer to isContextLost() was "lost".  (Stated for the calls in
\* which the cleanup callback does not throw: that case is C5.)
C8_EntriesLive ==
  ~CleanupThrew(call) =>
    \A v \in Versions : contexts[v] # NoHandle =>
      ~LostIn(call.trace, contexts[v])

\* ------------------------------------------------------------------ C9
\* C9: every construction uses the factory that is in the slot; a factory
\* in the slot stays there until setContextFactory is called; the browser
\* default enters the slot only in a getContextByVersion that found the
\* slot empty, in the browser.
C9_FactoryPrecedence ==
  [][ /\ \A i \in Idx(call'.trace, "factory") :
           /\ call'.trace[i].s = contextFactory'
           /\ contextFactory # Null => call'.trace[i].s = contextFactory
      /\ (contextFactory # Null /\ call'.op # "setContextFactory") =>
           contextFactory' = contextFactory
      /\ call'.op = "setContextFactory" => contextFactory' = call'.arg
      /\ (/\ contextFactory' = createDOMCanvasWebGLRenderingContext
          /\ contextFactory # createDOMCanvasWebGLRenderingContext) =>
           /\ call'.op = "getContextByVersion"
           /\ contextFactory = Null
           /\ ENV.IS_BROWSER
    ]_vars

\* in the browser, a handle was built by an injected factory
C9_Witness ==
  /\ ENV.IS_BROWSER
  /\ Returned(call)
  /\ \E i \in Idx(call.trace, "factory") : call.trace[i].s \in InjectedFactories
  /\ contextFactory \in InjectedFactories

\* ----------------------------------------------------------------- C10
\* C10: setContextFactory invokes no callback, and a getContextByVersion
\* that follows it and in which no handle answers "lost" invokes no cleanup.
C10_SwapNoCleanup ==
  [][ /\ call'.op = "setContextFactory" => call'.trace = <<>>
      /\ (/\ call.op = "setContextFactory"
          /\ call'.op = "getContextByVersion"
          /\ \A i \in Idx(call'.trace, "isContextLost") :
               call'.trace[i].n = 0) =>
           Idx(call'.trace, "cleanup") = {}
    ]_vars

\* both versions are cached, a cleanup is injected, and version 1 was
\* requested after the factory that built its handle had been replaced
C10_Witness ==
  /\ Returned(call)
  /\ call.version = 1
  /\ \A v \in Versions : contexts[v] # NoHandle
  /\ contextCleanup \in InjectedCleanups
  /\ gl[contexts[1]].builtBy # contextFactory
  /\ Idx(call.trace, "cleanup") = {}

\* ----------------------------------------------------------------- C11
\* reading a formatted number back: the value of a sequence of digits
RECURSIVE DigitsValue(_)
DigitsValue(ds) ==
  IF ds = <<>> THEN 0
  ELSE 10 * DigitsValue(SubSeq(ds, 1, Len(ds) - 1))
         + (CHOOSE d \in 0..9 : DigitChars[d + 1] = ds[Len(ds)])

\* the pieces ds are the decimal numeral of n (no sign for n >= 0, no
\* leading zero)
IsNumeral(ds, n) ==
  IF n < 0
    THEN /\ Len(ds) >= 2
         /\ ds[1] = "-"
         /\ \A i \in 2..Len(ds) : \E d \in 1..10 : DigitChars[d] = ds[i]
         /\ ds[2] # "0"
         /\ DigitsValue(Tail(ds)) = 0 - n
    ELSE /\ Len(ds) >= 1
         /\ \A i \in 1..Len(ds) : \E d \in 1..10 : DigitChars[d] = ds[i]
         /\ (Len(ds) > 1 => ds[1] # "0")
         /\ DigitsValue(ds) = n

\* the name of each of the six error codes
SixNames(status) ==
  CASE status = 1280 -> <<"INVALID_ENUM">>
    [] status = 1281 -> <<"INVALID_VALUE">>
    [] status = 1282 -> <<"INVALID_OPERATION">>
    [] status = 1286 -> <<"INVALID_FRAMEBUFFER_OPERATION">>
    [] status = 1285 -> <<"OUT_OF_MEMORY">>
    [] status = 37442 -> <<"CONTEXT_LOST_WEBGL">>
    [] OTHER -> <<>>

C12_CallAndCheck ==
  call.op = "callAndCheck" =>
    LET ops == {i \in 1..Len(call.trace) : call.trace[i].e = call.func.fn}
        errs == {i \in 1..Len(call.trace) : call.trace[i].e = "getError"}
    IN /\ ops = {1}
       /\ call.trace[1].s = call.func.cap
       /\ call.func.throws =>
            /\ call.status = "OperationError"
            /\ errs = {}
       /\ (~call.func.throws /\ ~call.debugMode) =>
            /\ errs = {}
            /\ Len(call.trace) = 1
            /\ call.status = "ok"
            /\ call.ret = call.func.returns
       /\ (~call.func.throws /\ call.debugMode) =>
            /\ errs = {2}
            /\ Len(call.trace) = 2
            /\ call.status = "GraphicsError" <=> call.trace[2].n # NO_ERROR
            /\ call.status = "GraphicsError" => call.code = call.trace[2].n
            /\ call.status = "ok" <=> call.trace[2].n = NO_ERROR
            /\ call.status = "ok" => call.ret = call.func.returns

\* in debug mode the operation returned a value, the check found no error
\* and the value was returned
C12_Witness ==
  /\ call.op = "callAndCheck"
  /\ call.debugMode
  /\ call.func.returns = "true"
  /\ Len(call.trace) = 2
  /\ call.trace[2].e = "getError"
  /\ call.status = "ok"
  /\ call.ret = "true"

\* ----------------------------------------------------------------- C13
\* the nine state-setting calls of bootstrap, in their order
BootstrapCalls ==
  << <<"disable", "DEPTH_TEST">>, <<"disable", "STENCIL_TEST">>,
     <<"disable", "BLEND">>, <<"disable", "DITHER">>,
     <<"disable", "POLYGON_OFFSET_FILL">>, <<"disable", "SAMPLE_COVERAGE">>,
     <<"enable", "SCISSOR_TEST">>, <<"enable", "CULL_FACE">>,
     <<"cullFace", "BACK">> >>

\* the state-setting calls the handle h received during a call, in order
StateCalls(trace, h) ==
  LET F[i \in 0..Len(trace)] ==
        IF i = 0 THEN <<>>
        ELSE IF trace[i].h = h /\ trace[i].e \in {"disable", "enable", "cullFace"}
          THEN Append(F[i - 1], <<trace[i].e, trace[i].s>>)
          ELSE F[i - 1]
  IN F[Len(trace)]

\* C13: a handle getContextByVersion returns has received the nine
\* bootstrap calls, once; within a call, a handle the factory built in it
\* receives them in the fixed order, and a handle that was in the registry
\* before the call receives none.
C13_BootstrapOnce ==
  /\ Returned(call) =>
       /\ gl[call.ret].calls = 9
       /\ Idx(call.trace, "factory") # {} =>
            StateCalls(call.trace, call.ret) = BootstrapCalls
  /\ call.op = "getContextByVersion" =>
       \A h \in Handles :
         (\A i \in Idx(call.trace, "factory") : call.trace[i].h # h) =>
           StateCalls(call.trace, h) = <<>>

\* ----------------------------------------------------------------- C14
\* the positions of the state-setting calls in a call's event list
StateCallIdx(trace) ==
  Idx(trace, "disable") \cup Idx(trace, "enable") \cup Idx(trace, "cullFace")

\* C14: with DEBUG true every state-setting call of bootstrap is followed
\* at once by an error query on the same handle; with DEBUG false a
\* getContextByVersion makes no error query and does not fail with the
\* graphics error.
C14_DebugGated ==
  call.op = "getContextByVersion" =>
    /\ ENV.DEBUG =>
         \A i \in StateCallIdx(call.trace) :
           /\ i < Len(call.trace)
           /\ call.trace[i + 1].e = "getError"
           /\ call.trace[i + 1].h = call.trace[i].h
    /\ ~ENV.DEBUG =>
         /\ Idx(call.trace, "getError") = {}
         /\ call.status # "GraphicsError"

\* ----------------------------------------------------------------- C15
\* the call failed with the graphics error on the handle h it had built,
\* before it asked h whether it is lost: in bootstrap or in the check that
\* follows bootstrap
FailedValidating(c, h) ==
  /\ c.op = "getContextByVersion"
  /\ c.status = "GraphicsError"
  /\ c.trace[Len(c.trace)].h = h
  /\ \E i \in Idx(c.trace, "factory") : c.trace[i].h = h
  /\ \A i \in Idx(c.trace, "isContextLost") : c.trace[i].h # h

\* C15: when bootstrap or the error check fails on a handle the call has
\* built, the handle is not in the registry and the version has no entry.
C15_ValidateBeforeCaching ==
  \A h \in Handles :
    FailedValidating(call, h) =>
      /\ contexts[call.version] = NoHandle
      /\ \A v \in Versions : contexts[v] # h

\* ----------------------------------------------------------------- C16
\* C16: setContextCleanup(c) puts c in the cleanup slot, invokes no
\* callback and leaves the map, the handles and the factory slot as they
\* were; while a cleanup is in the slot every disposal invokes it, on the
\* handle it removes and before removing it, and the slot keeps it until
\* setContextCleanup is called again.
C16_CleanupSwap ==
  [][ /\ call'.op = "setContextCleanup" =>
           /\ contextCleanup' = call'.arg
           /\ call'.trace = <<>>
           /\ call'.status = "ok"
           /\ UNCHANGED <<contexts, contextFactory, gl>>
      /\ contextCleanup # Null =>
           /\ call'.op # "setContextCleanup" => contextCleanup' = contextCleanup
           /\ \A i \in Idx(call'.trace, "cleanup") :
                call'.trace[i].s = contextCleanup
           /\ \A i \in Idx(call'.trace, "delete") :
                /\ i > 1
                /\ call'.trace[i - 1].e = "cleanup"
                /\ call'.trace[i - 1].h = call'.trace[i].h
                /\ call'.trace[i - 1].s = contextCleanup
    ]_vars

\* the injected cleanup was installed while both versions were cached
C16_Witness ==
  /\ call.op = "setContextCleanup"
  /\ call.arg \in InjectedCleanups
  /\ contextCleanup = call.arg
  /\ \A v \in Versions : contexts[v] # NoHandle

\* ----------------------------------------------------------------- C17
\* C17: cleanup is never invoked on a handle on which it was invoked
\* before.
C17_NoDoubleDispose ==
  [][ \A i \in Idx(call'.trace, "cleanup") :
        ~gl[call'.trace[i].h].cleaned ]_vars

\* ----------------------------------------------------------------- C18
\* C18: a handle that leaves the registry in an operation (or is built and
\* dropped within it) has had cleanup invoked on it.
C18_NoLeak ==
  [][ \A h \in Handles :
        (/\ \/ \E v \in Versions : contexts[v] = h
            \/ \E i \in Idx(call'.trace, "factory") : call'.trace[i].h = h
         /\ \A v \in Versions : contexts'[v] # h) =>
          \/ gl[h].cleaned
          \/ \E i \in Idx(call'.trace, "cleanup") : call'.trace[i].h = h
    ]_vars

\* ----------------------------------------------------------------- C19
\* C19: getContextByVersion(v) and disposeActiveContext (of version v)
\* leave the entry of the other version and its handle as they were, call
\* nothing on that handle, and invoke the factory for v only.
C19_VersionIsolation ==
  [][ call'.op \in {"getContextByVersion", "disposeActiveContext"} =>
        /\ \A w \in Versions \ {call'.version} :
             /\ contexts'[w] = contexts[w]
             /\ contexts[w] # NoHandle =>
                  /\ gl'[contexts[w]] = gl[contexts[w]]
                  /\ \A i \in 1..Len(call'.trace) :
                       call'.trace[i].h # contexts[w]
        /\ \A i \in Idx(call'.trace, "factory") :
             /\ call'.trace[i].n = call'.version
             /\ gl'[call'.trace[i].h].version \in {0, call'.version}
    ]_vars

\* a lost handle of one version was disposed and rebuilt while the other
\* version was cached
C19_Witness ==
  /\ Returned(call)
  /\ AskedCached(call, 1)
  /\ Idx(call.trace, "cleanup") # {}
  /\ Idx(call.trace, "factory") # {}
  /\ \A v \in Versions : contexts[v] # NoHandle
====
